---- MODULE Spec2Model ----
(***************************************************************************)
(* TCP/IP port forwarding of src/tcpip.go: the remote-forward registry     *)
(* (ForwardedTCPHandler.HandleSSHRequest with its cancellation watcher,    *)
(* accept loop and per-connection forwarding tasks) and the local-forward  *)
(* handler (DirectTCPIPHandler) with its two io.Copy relay tasks.          *)
(*                                                                         *)
(* Every goroutine is a process with a program counter.  One action is one *)
(* step of one goroutine between two points where another goroutine can    *)
(* observe it: a critical section of the handler's mutex (Lock, map        *)
(* access, Unlock) is one step, and so is each call that blocks or has an  *)
(* effect outside the goroutine (listen, accept, close, open channel,      *)
(* authorization callback).                                                *)
(***************************************************************************)
EXTENDS Integers, Sequences, FiniteSets, TLC

(***************************************************************************)
(* Bounds of the model.                                                    *)
(***************************************************************************)
\* The cancel-tcpip-forward requests that reach the registry.
MaxCancels == 1
\* The same, where cancel requests are repeated.
MaxRepeatedCancels == 2
\* The listeners made and the connections accepted on them, together.
MaxForwards == 2

\* A TCP port is below 2^16.
PortLimit == 65536

\* uint32(n) of an int n: the value itself for 0 <= n < 2^32, and no number of
\* the model (a port, a payload's BindPort) is outside that range.
ToUint32(n) == n

Conns == {"c1", "c2"}
Handlers == {"h1", "h2"}
SlotOrder == [h \in Handlers |-> IF h = "h1" THEN 1 ELSE 2]

\* The worlds explored: one connection whose requests are handled two at a
\* time, and two connections, sharing the handler, one request at a time.
Worlds == {[conns |-> {"c1"}, slots |-> {"h1", "h2"}, cancels |-> MaxCancels],
           [conns |-> {"c1", "c2"}, slots |-> {"h1"}, cancels |-> MaxCancels]}

\* One connection that repeats its cancel requests, one request at a time.
RepeatingWorld == [conns |-> {"c1"}, slots |-> {"h1"}, cancels |-> MaxRepeatedCancels]

\* Request inputs: bind hosts ("nohost" does not resolve, "localhost" is a
\* second name of 127.0.0.1 and is tried in cancel requests), bind ports (0
\* lets the kernel choose, 70000 is no TCP port), and the ports the kernel
\* hands out.
BindHosts == {"127.0.0.1", "nohost"}
CancelHosts == BindHosts \cup {"localhost"}
BindPorts == {0, 80, 70000}
EphemeralPorts == {1024, 1025}
HostIP == [h \in {"127.0.0.1", "localhost"} |-> "127.0.0.1"]
Peers == {[IP |-> "10.0.0.9", Port |-> 40000]}
RequestTypes == {"tcpip-forward", "cancel-tcpip-forward", "other"}
Nil == "nil"
NoLn == 0

(***************************************************************************)
(* strconv.Itoa / strconv.Atoi on non-negative numbers, as digit sequences,*)
(* and net.JoinHostPort / net.SplitHostPort on hosts without a colon.      *)
(***************************************************************************)
Digits == <<"0", "1", "2", "3", "4", "5", "6", "7", "8", "9">>

DigitVal(ch) == (CHOOSE i \in 1..10 : Digits[i] = ch) - 1

RECURSIVE Itoa(_)
Itoa(n) == IF n < 10 THEN <<Digits[n + 1]>> ELSE Append(Itoa(n \div 10), Digits[(n % 10) + 1])

RECURSIVE Atoi(_)
Atoi(s) == IF s = <<>> THEN 0 ELSE 10 * Atoi(SubSeq(s, 1, Len(s) - 1)) + DigitVal(s[Len(s)])

JoinHostPort(host, port) == <<host, ":">> \o port

SplitHostPort(s) ==
    LET i == CHOOSE j \in 1..Len(s) : s[j] = ":" /\ \A k \in (j+1)..Len(s) : s[k] # ":"
    IN  [host |-> s[1], port |-> SubSeq(s, i + 1, Len(s))]

\* The nil *net.TCPAddr that comes with a resolution error.
NoAddr == [IP |-> "", Port |-> 0]

\* net.ResolveTCPAddr("tcp", addrstr): an error for an unknown host or a port
\* that is no TCP port, else the TCP address.
ResolveTCPAddr(addrstr) ==
    LET hp == SplitHostPort(addrstr)
        port == Atoi(hp.port)
    IN  IF hp.host \notin DOMAIN HostIP \/ port >= PortLimit
        THEN NoAddr
        ELSE [IP |-> HostIP[hp.host], Port |-> port]

\* (*net.TCPAddr).String()
AddrString(a) == JoinHostPort(a.IP, Itoa(a.Port))

\* The payloads a request can carry: undecodable, or the two fields.
Malformed == [decodes |-> FALSE, BindAddr |-> "", BindPort |-> 0]
Payloads(type) ==
    {Malformed} \cup [decodes : {TRUE},
                      BindAddr : IF type = "cancel-tcpip-forward" THEN CancelHosts ELSE BindHosts,
                      BindPort : BindPorts]

\* The reply payloads: nil, []byte{}, a text, and a marshalled remoteForwardSuccess.
NilPayload == [kind |-> "nil", text |-> "", BindPort |-> 0]
EmptyPayload == [kind |-> "empty", text |-> "", BindPort |-> 0]
Text(t) == [kind |-> "text", text |-> t, BindPort |-> 0]
MarshalSuccess(port) == [kind |-> "remoteForwardSuccess", text |-> "", BindPort |-> ToUint32(port)]
NoReply == [ok |-> FALSE, payload |-> [kind |-> "none", text |-> "", BindPort |-> 0]]

VARIABLES
    world,         \* the connections there are and the handler slots serving them
    callbackSet,   \* srv.ReversePortForwardingCallback != nil
    forwards,      \* h.forwards: addrstr -> listener, a map with a changing domain
    lns,           \* every listener made by net.ListenTCP, with the goroutines of its request
    tasks,         \* the per-connection forwarding goroutines
    handlers,      \* the invocations of HandleSSHRequest
    ctxDone,       \* per connection: ctx.Done() is closed
    ncancel,       \* cancel-tcpip-forward requests begun so far that reached the registry
    direct,        \* the invocation of DirectTCPIPHandler
    copy,          \* its two io.Copy goroutines, by direction
    mu,            \* h.Mutex: the goroutine that holds it, or Unlocked
    at,            \* per goroutine of the lock discipline: its next instruction
    inMap          \* the goroutines in the middle of an access to h.forwards

remoteVars == <<world, callbackSet, forwards, lns, tasks, handlers, ctxDone, ncancel>>
localVars == <<direct, copy>>
lockVars == <<mu, at, inMap>>
vars == <<world, callbackSet, forwards, lns, tasks, handlers, ctxDone, ncancel, direct, copy,
          mu, at, inMap>>

IdleHandler ==
    [pc |-> "idle", conn |-> Nil, type |-> Nil, reqPayload |-> Malformed, addrstr |-> <<>>,
     addr |-> NoAddr, ln |-> NoLn, ok |-> FALSE, reply |-> NoReply, stopCalls |-> 0,
     closes |-> 0, query |-> "none", startCalls |-> 0, closeErr |-> "none"]

\* The two directions of a relay between the channel and the dialed socket:
\* io.Copy(ch, dconn) and io.Copy(dconn, ch).
Directions == {"dconn->ch", "ch->dconn"}
Source(d) == IF d = "dconn->ch" THEN "dconn" ELSE "ch"
Sink(d) == IF d = "dconn->ch" THEN "ch" ELSE "dconn"

NoCopy == [pc |-> "none", written |-> <<>>, unread |-> <<>>, eof |-> FALSE,
           buf |-> <<>>, delivered |-> <<>>]

NoDirect ==
    [pc |-> "none", decodes |-> FALSE, callbackSet |-> FALSE,
     d |-> [DestAddr |-> "", DestPort |-> 0], rejected |-> "none", dialed |-> <<>>,
     verdict |-> "none", dconn |-> "none", ch |-> "none"]

\* The goroutines whose use of the mutex is followed, one of each kind, and
\* the mutex when no goroutine holds it.
Goroutines == {"forward", "cancel", "watcher", "loop", "task"}
Unlocked == "unlocked"

\* No goroutine has started: the state of the mutex in the zero handler.
LockIdle ==
    /\ mu = Unlocked
    /\ at = [g \in Goroutines |-> 1]
    /\ inMap = {}

RemoteInit ==
    /\ forwards = [k \in {} |-> NoLn]
    /\ lns = <<>>
    /\ tasks = <<>>
    /\ handlers = [h \in Handlers |-> IdleHandler]
    /\ ctxDone = [c \in Conns |-> FALSE]
    /\ ncancel = 0

Init ==
    /\ world \in Worlds
    /\ callbackSet \in BOOLEAN
    /\ RemoteInit
    /\ direct = NoDirect
    /\ copy = [d \in Directions |-> NoCopy]
    /\ LockIdle

\* A nil function value was called: the panic is not recovered in this file
\* and ends the process.
Panicked == \E h \in Handlers : handlers[h].pc = "panic"

\* A returned invocation's reply is sent before any other goroutine moves:
\* the return and the send touch nothing another goroutine reads. A stopped
\* process moves no more.
Running == ~Panicked /\ \A h \in Handlers : handlers[h].pc # "returned"

Listeners == 1..Len(lns)
Tasks == 1..Len(tasks)

\* return ok, payload: the invocation has returned and its caller holds the reply.
Return(h, ok, payload) ==
    handlers' = [handlers EXCEPT ![h].pc = "returned",
                                 ![h].reply = [ok |-> ok, payload |-> payload]]

Goto(h, pc) == handlers' = [handlers EXCEPT ![h].pc = pc]

\* A delete that empties the map.
MapDeleteAll(m, k) == [x \in {} |-> NoLn]

\* The Go map operations m[k] = v, delete(m, k) and v, ok := m[k].
MapPut(m, k, v) == [x \in (DOMAIN m) \cup {k} |-> IF x = k THEN v ELSE m[x]]
MapDelete(m, k) == [x \in (DOMAIN m) \ {k} |-> m[x]]
MapGet(m, k) == IF k \in DOMAIN m THEN [v |-> m[k], ok |-> TRUE] ELSE [v |-> NoLn, ok |-> FALSE]

\* ln.Close(): closing a closed listener returns an error that every caller drops.
CloseListener(l) == [lns EXCEPT ![l].open = FALSE, ![l].closeCalls = @ + 1]

\* What ln.Close() returns: nil, or the error of a listener closed before.
CloseError(l) == IF lns[l].open THEN "nil" ELSE "ErrClosed"

\* The bind address is taken while an open listener holds it.
InUse(a) == \E l \in Listeners : lns[l].open /\ lns[l].laddr = a

\* The listeners made and the connections accepted so far.
Made == Len(lns) + Len(tasks)

\* The tcpip-forward invocations that may still call net.ListenTCP.
Listening == {h \in Handlers : handlers[h].pc = "listen"}

(***************************************************************************)
(* HandleSSHRequest, lines 97-123 and 224-234: the map is made under the   *)
(* lock, the payload is decoded and the bind address resolved; for         *)
(* tcpip-forward the callback is then called in query mode (signal 0) and  *)
(* its result, allowed, gates the listen.  Handler slots are               *)
(* interchangeable: a request takes the first idle one.                    *)
(***************************************************************************)
\* A query whose answer is not looked at.
GrantedAlways(result) == TRUE

\* line 121: the test of the query-mode callback's result.
Granted(result) == result

Begin(h, c, type, payload, allowed) ==
    /\ Running
    /\ h \in world.slots /\ c \in world.conns
    /\ handlers[h].pc = "idle"
    /\ \A g \in Handlers : handlers[g].pc = "idle" => SlotOrder[h] <= SlotOrder[g]
    /\ ~ctxDone[c]
    /\ type = "tcpip-forward" => Made + Cardinality(Listening) < MaxForwards
    /\ ncancel' = IF type = "cancel-tcpip-forward" /\ payload.decodes
                      /\ ResolveTCPAddr(JoinHostPort(payload.BindAddr, Itoa(payload.BindPort))) # NoAddr
                   THEN ncancel + 1 ELSE ncancel
    /\ ncancel' <= world.cancels
    /\ LET addrstr == JoinHostPort(payload.BindAddr, Itoa(payload.BindPort))
           addr == ResolveTCPAddr(addrstr)
           asked == type = "tcpip-forward" /\ payload.decodes /\ callbackSet /\ addr # NoAddr
           me == [IdleHandler EXCEPT !.conn = c, !.type = type,
                                     !.query = IF ~asked THEN "none"
                                               ELSE IF allowed THEN "allowed" ELSE "denied"]
           ret(ok, pl) == handlers' = [handlers EXCEPT ![h] =
                              [me EXCEPT !.pc = "returned",
                                         !.reply = [ok |-> ok, payload |-> pl]]]
           go(pc) == handlers' = [handlers EXCEPT ![h] =
                              [me EXCEPT !.pc = pc, !.reqPayload = payload,
                                         !.addrstr = addrstr, !.addr = addr]]
       IN  CASE type = "tcpip-forward" ->
                  IF ~payload.decodes THEN ret(FALSE, EmptyPayload)
                  ELSE IF ~callbackSet THEN ret(FALSE, Text("port forwarding is disabled"))
                  ELSE IF addr = NoAddr
                       THEN ret(FALSE, Text("port forwarding disabled - invalid address requested"))
                  ELSE IF ~Granted(allowed) THEN ret(FALSE, Text("port forwarding is rejected"))
                  ELSE go("listen")
             [] type = "cancel-tcpip-forward" ->
                  IF ~payload.decodes THEN ret(FALSE, EmptyPayload)
                  ELSE IF addr = NoAddr
                       THEN ret(FALSE, Text("port forwarding cancellation rejected - invalid address requested"))
                  ELSE go("lookup")
             [] OTHER -> ret(FALSE, NilPayload)
    /\ UNCHANGED <<lockVars, localVars, world, callbackSet, forwards, lns, tasks, ctxDone>>

\* The caller sends the reply of a returned invocation (req.Reply).
Reply(h) ==
    /\ handlers[h].pc = "returned"
    /\ handlers' = [handlers EXCEPT ![h] = IdleHandler]
    /\ UNCHANGED <<lockVars, localVars, world, callbackSet, forwards, lns, tasks, ctxDone, ncancel>>

\* lines 133-134: the bound port is read back from the listener's address.
BoundPort(laddr) == Atoi(SplitHostPort(AddrString(laddr)).port)

\* The listener of a request and the variables its goroutines capture.
NewListener(h, laddr) ==
    [open |-> TRUE, laddr |-> laddr, conn |-> handlers[h].conn,
     addrstr |-> handlers[h].addrstr, addr |-> handlers[h].addr,
     BindAddr |-> handlers[h].reqPayload.BindAddr, destPort |-> BoundPort(laddr),
     replyPort |-> 0, lpc |-> "none", wpc |-> "none", wln |-> NoLn,
     stoppedBy |-> {}, closeCalls |-> 0, drains |-> 0]

\* lines 125-134: net.ListenTCP. Port 0 takes a free port of the kernel's
\* choice; a taken address (or no free port) fails the listen. The new
\* listener is passed to the callback in started mode (signal 1).
Listen(h) ==
    /\ Running
    /\ handlers[h].pc = "listen"
    /\ LET addr == handlers[h].addr
           free == IF addr.Port = 0
                   THEN {p \in EphemeralPorts : ~InUse([IP |-> addr.IP, Port |-> p])}
                   ELSE {p \in {addr.Port} : ~InUse(addr)}
       IN  IF free = {}
           THEN /\ Return(h, FALSE, EmptyPayload)
                /\ UNCHANGED lns
           ELSE \E p \in free :
                /\ lns' = Append(lns, NewListener(h, [IP |-> addr.IP, Port |-> p]))
                /\ handlers' = [handlers EXCEPT ![h].pc = "register", ![h].ln = Len(lns) + 1,
                                                ![h].startCalls = @ + 1]
    /\ UNCHANGED <<lockVars, localVars, world, callbackSet, forwards, tasks, ctxDone, ncancel>>


\* lines 135-137: the registry key of a listener is the request's literal string.
RegistryKey(h) == handlers[h].addrstr

\* lines 135-147 and 222: the listener is recorded under the lock, the watcher
\* and the accept loop are started, and the reply carries the bound port.
Register(h) ==
    /\ Running
    /\ handlers[h].pc = "register"
    /\ LET l == handlers[h].ln
       IN  /\ forwards' = MapPut(forwards, RegistryKey(h), l)
           /\ lns' = [lns EXCEPT ![l].wpc = "wait", ![l].lpc = "accepting",
                                  ![l].replyPort = MarshalSuccess(lns[l].destPort).BindPort]
           /\ Return(h, TRUE, MarshalSuccess(lns[l].destPort))
    /\ UNCHANGED <<lockVars, localVars, world, callbackSet, tasks, ctxDone, ncancel>>

(***************************************************************************)
(* cancel-tcpip-forward, lines 236-244.                                    *)
(***************************************************************************)
\* lines 236-238: ln, ok := h.forwards[addrstr] under the lock.
Lookup(h) ==
    /\ Running
    /\ handlers[h].pc = "lookup"
    /\ LET got == MapGet(forwards, handlers[h].addrstr)
       IN  handlers' = [handlers EXCEPT ![h].pc = "stopcb", ![h].ln = got.v, ![h].ok = got.ok]
    /\ UNCHANGED <<lockVars, localVars, world, callbackSet, forwards, lns, tasks, ctxDone, ncancel>>

\* The listeners whose bind address (the address their callbacks were given)
\* is a: the callback in stopped mode names only this address.
BoundTo(a) == {l \in Listeners : lns[l].addr = a}

\* line 239: the callback in stopped mode (signal -1), called whether or not a
\* callback is configured: calling the nil function value panics.
CancelStopped(h) ==
    /\ Running
    /\ handlers[h].pc = "stopcb"
    /\ IF callbackSet
       THEN /\ handlers' = [handlers EXCEPT ![h].pc = "close",
                                            ![h].stopCalls = @ + 1]
            /\ lns' = [l \in Listeners |->
                         IF l \in BoundTo(handlers[h].addr)
                         THEN [lns[l] EXCEPT !.stoppedBy = @ \cup {"cancel"}]
                         ELSE lns[l]]
       ELSE /\ Goto(h, "panic")
            /\ UNCHANGED lns
    /\ UNCHANGED <<lockVars, localVars, world, callbackSet, forwards, tasks, ctxDone, ncancel>>

\* A reply that tells the peer of the close's error.
CancelReplyWithError(err) ==
    IF err = "ErrClosed" THEN [ok |-> FALSE, payload |-> Text(err)]
    ELSE [ok |-> TRUE, payload |-> NilPayload]

\* lines 242-244: the result of ln.Close() is dropped; return true, nil.
CancelReply(err) == [ok |-> TRUE, payload |-> NilPayload]

\* lines 240-244: the listener found is closed, and the reply is handled, nil.
CancelClose(h) ==
    /\ Running
    /\ handlers[h].pc = "close"
    /\ IF handlers[h].ok
       THEN /\ lns' = CloseListener(handlers[h].ln)
            /\ handlers' = [handlers EXCEPT ![h].pc = "returned", ![h].closes = @ + 1,
                                            ![h].closeErr = CloseError(handlers[h].ln),
                                            ![h].reply = CancelReply(CloseError(handlers[h].ln))]
       ELSE /\ Return(h, TRUE, NilPayload)
            /\ UNCHANGED lns
    /\ UNCHANGED <<lockVars, localVars, world, callbackSet, forwards, tasks, ctxDone, ncancel>>

(***************************************************************************)
(* The cancellation watcher, lines 138-146.                                *)
(***************************************************************************)
\* The connection's context ends.
CtxCancel(c) ==
    /\ Running
    /\ c \in world.conns
    /\ ~ctxDone[c]
    /\ ctxDone' = [ctxDone EXCEPT ![c] = TRUE]
    /\ UNCHANGED <<lockVars, localVars, world, callbackSet, forwards, lns, tasks, handlers, ncancel>>

\* lines 139-142: after <-ctx.Done(), ln, ok := h.forwards[addrstr] under the lock.
WatcherLookup(l) ==
    /\ Running
    /\ lns[l].wpc = "wait"
    /\ ctxDone[lns[l].conn]
    /\ LET got == MapGet(forwards, lns[l].addrstr)
       IN  lns' = [lns EXCEPT ![l].wpc = IF got.ok THEN "close" ELSE "done",
                              ![l].wln = got.v]
    /\ UNCHANGED <<lockVars, localVars, world, callbackSet, forwards, tasks, handlers, ctxDone, ncancel>>

\* lines 143-145: the listener found is closed.
WatcherClose(l) ==
    /\ Running
    /\ lns[l].wpc = "close"
    /\ lns' = [CloseListener(lns[l].wln) EXCEPT ![l].wpc = "done"]
    /\ UNCHANGED <<lockVars, localVars, world, callbackSet, forwards, tasks, handlers, ctxDone, ncancel>>

(***************************************************************************)
(* The accept loop, lines 147-221.                                         *)
(***************************************************************************)
\* A payload that carries the requested port instead of the bound one.
ChannelDataRequestedPort(l, peer) ==
    LET hp == SplitHostPort(AddrString(peer))
    IN  [DestAddr |-> lns[l].BindAddr,
         DestPort |-> ToUint32(lns[l].addr.Port),
         OriginAddr |-> hp.host,
         OriginPort |-> ToUint32(Atoi(hp.port))]

\* lines 159-164: the payload of the forwarded-tcpip channel-open.
ChannelData(l, peer) ==
    LET hp == SplitHostPort(AddrString(peer))
    IN  [DestAddr |-> lns[l].BindAddr,
         DestPort |-> ToUint32(lns[l].destPort),
         OriginAddr |-> hp.host,
         OriginPort |-> ToUint32(Atoi(hp.port))]

\* lines 150 and 157-166: a connection of a peer is accepted and its
\* forwarding task is added to the wait group and started.
Accept(l, peer) ==
    /\ Running
    /\ lns[l].lpc = "accepting"
    /\ lns[l].open
    /\ Made + Cardinality(Listening) < MaxForwards
    /\ tasks' = Append(tasks, [ln |-> l, pc |-> "open", payload |-> ChannelData(l, peer),
                               peer |-> peer, ch |-> "none", c |-> "open", copies |-> {},
                               opened |-> FALSE, closed |-> FALSE])
    /\ UNCHANGED <<lockVars, localVars, world, callbackSet, forwards, lns, handlers, ctxDone, ncancel>>

\* lines 150-156: Accept fails once the listener is closed (net.ErrClosed) and
\* the loop ends. Accept on an open listener blocks until a peer connects: the
\* kernel running out of resources under it is outside this model.
AcceptFails(l) ==
    /\ Running
    /\ lns[l].lpc = "accepting"
    /\ ~lns[l].open
    /\ lns' = [lns EXCEPT ![l].lpc = "draining"]
    /\ UNCHANGED <<lockVars, localVars, world, callbackSet, forwards, tasks, handlers, ctxDone, ncancel>>

\* A wait that does not wait.
WaitGroupSkipped(l) == TRUE

\* line 215: lwg.Wait() returns when every task of the loop has called lwg.Done().
WaitGroupDone(l) == \A t \in Tasks : tasks[t].ln = l => tasks[t].pc = "done"

\* lines 215-218: after lwg.Wait(), delete(h.forwards, addrstr) under the lock.
Drain(l) ==
    /\ Running
    /\ lns[l].lpc = "draining"
    /\ WaitGroupDone(l)
    /\ forwards' = MapDelete(forwards, lns[l].addrstr)
    /\ lns' = [lns EXCEPT ![l].lpc = "stopcb", ![l].drains = @ + 1]
    /\ UNCHANGED <<lockVars, localVars, world, callbackSet, tasks, handlers, ctxDone, ncancel>>

\* lines 219-220: the callback in stopped mode (signal -1) ends the loop.
LoopStopped(l) ==
    /\ Running
    /\ lns[l].lpc = "stopcb"
    /\ lns' = [lns EXCEPT ![l].lpc = "done", ![l].stoppedBy = @ \cup {"drain"}]
    /\ UNCHANGED <<lockVars, localVars, world, callbackSet, forwards, tasks, handlers, ctxDone, ncancel>>

(***************************************************************************)
(* The per-connection forwarding task, lines 166-213.  The accepted socket *)
(* of a TCP listener has TCP addresses, so lines 178-187 close nothing.    *)
(***************************************************************************)
\* lines 168-173: conn.OpenChannel; on an error the socket is closed and the
\* task ends.
OpenChannel(t, opens) ==
    /\ Running
    /\ tasks[t].pc = "open"
    /\ tasks' = IF opens
                THEN [tasks EXCEPT ![t].pc = "cbopen", ![t].ch = "open"]
                ELSE [tasks EXCEPT ![t].pc = "done", ![t].c = "closed"]
    /\ UNCHANGED <<lockVars, localVars, world, callbackSet, forwards, lns, handlers, ctxDone, ncancel>>

\* line 189: the callback in channel-open mode (signal 2); then the two copy
\* goroutines are started (lines 192-208).
ChannelOpened(t) ==
    /\ Running
    /\ tasks[t].pc = "cbopen"
    /\ tasks' = [tasks EXCEPT ![t].pc = "relay", ![t].opened = TRUE]
    /\ UNCHANGED <<lockVars, localVars, world, callbackSet, forwards, lns, handlers, ctxDone, ncancel>>

\* lines 196-208: a copy goroutine's io.Copy returns (its source ended or a
\* stream is closed) and its deferred calls close the socket and the channel.
CopyDirections == {"c->ch", "ch->c"}

\* Deferred calls that close the socket and leave the channel.
CloseSocketOnly(task) == [task EXCEPT !.c = "closed"]

\* lines 198-199 and 205-206: defer ch.Close(), defer c.Close().
CloseBoth(task) == [task EXCEPT !.c = "closed", !.ch = "closed"]

CopyEnds(t, d) ==
    /\ Running
    /\ tasks[t].pc = "relay"
    /\ d \notin tasks[t].copies
    /\ tasks' = [tasks EXCEPT ![t] = CloseBoth([tasks[t] EXCEPT !.copies = @ \cup {d}])]
    /\ UNCHANGED <<lockVars, localVars, world, callbackSet, forwards, lns, handlers, ctxDone, ncancel>>

\* lines 209-213: wg.Wait() returns when both copies ended; then the callback
\* in channel-closed mode (signal -2), and lwg.Done().
\* A wait that returns at once.
WaitSkipped(t) == TRUE

\* line 209: wg.Wait() returns when both copy goroutines have called wg.Done().
WaitDone(t) == tasks[t].copies = CopyDirections

ChannelClosed(t) ==
    /\ Running
    /\ tasks[t].pc = "relay"
    /\ WaitDone(t)
    /\ tasks' = [tasks EXCEPT ![t].pc = "done", ![t].closed = TRUE]
    /\ UNCHANGED <<lockVars, localVars, world, callbackSet, forwards, lns, handlers, ctxDone, ncancel>>

Next ==
    \/ \E h \in Handlers, c \in Conns, type \in RequestTypes, allowed \in BOOLEAN :
          \E payload \in Payloads(type) : Begin(h, c, type, payload, allowed)
    \/ \E h \in Handlers : Reply(h)
    \/ \E h \in Handlers : Listen(h)
    \/ \E h \in Handlers : Register(h)
    \/ \E h \in Handlers : Lookup(h)
    \/ \E h \in Handlers : CancelStopped(h)
    \/ \E h \in Handlers : CancelClose(h)
    \/ \E c \in Conns : CtxCancel(c)
    \/ \E l \in Listeners : WatcherLookup(l)
    \/ \E l \in Listeners : WatcherClose(l)
    \/ \E l \in Listeners, peer \in Peers : Accept(l, peer)
    \/ \E l \in Listeners : AcceptFails(l)
    \/ \E l \in Listeners : Drain(l)
    \/ \E l \in Listeners : LoopStopped(l)
    \/ \E t \in Tasks, opens \in BOOLEAN : OpenChannel(t, opens)
    \/ \E t \in Tasks : ChannelOpened(t)
    \/ \E t \in Tasks, d \in CopyDirections : CopyEnds(t, d)
    \/ \E t \in Tasks : ChannelClosed(t)

Spec == Init /\ [][Next]_vars

\* The same handler with a callback configured, serving one connection that
\* repeats its cancel requests.
RepeatInit ==
    /\ world = RepeatingWorld
    /\ callbackSet = TRUE
    /\ RemoteInit
    /\ direct = NoDirect
    /\ copy = [d \in Directions |-> NoCopy]
    /\ LockIdle

RepeatSpec == RepeatInit /\ [][Next]_vars

(***************************************************************************)
(* DirectTCPIPHandler, lines 28-66, for one direct-tcpip channel-open.     *)
(***************************************************************************)
\* The channel-open's extra data decodes or not; the server has a
\* LocalPortForwardingCallback or none.
DestHosts == {"10.0.0.5"}
DestPorts == {22, 8080}

LocalInit ==
    /\ world = [conns |-> {"c1"}, slots |-> {}, cancels |-> 0]
    /\ callbackSet = FALSE
    /\ RemoteInit
    /\ \E decodes \in BOOLEAN, set \in BOOLEAN, host \in DestHosts, port \in DestPorts :
          direct = [NoDirect EXCEPT !.pc = "decode", !.decodes = decodes,
                                    !.callbackSet = set,
                                    !.d = IF decodes
                                          THEN [DestAddr |-> host, DestPort |-> port]
                                          ELSE [DestAddr |-> "", DestPort |-> 0]]
    /\ copy = [d \in Directions |-> NoCopy]
    /\ LockIdle

\* newChan.Reject(reason, message): the handler returns.
Reject(reason) == direct' = [direct EXCEPT !.pc = "returned", !.rejected = reason]

\* lines 29-33: gossh.Unmarshal of the extra data.
\* A decode whose error is dropped.
DecodeIgnoresError ==
    /\ direct.pc = "decode"
    /\ direct' = [direct EXCEPT !.pc = "authorize"]
    /\ UNCHANGED <<lockVars, remoteVars, copy>>

DirectDecode ==
    /\ direct.pc = "decode"
    /\ IF direct.decodes
       THEN direct' = [direct EXCEPT !.pc = "authorize"]
       ELSE Reject("ConnectionFailed")
    /\ UNCHANGED <<lockVars, remoteVars, copy>>

\* An authorization that dials although the callback denied.
AuthorizeIgnoresDenial(allowed) ==
    /\ direct.pc = "authorize"
    /\ IF ~direct.callbackSet
       THEN direct' = [direct EXCEPT !.pc = "returned", !.rejected = "Prohibited",
                                     !.verdict = "no callback"]
       ELSE direct' = [direct EXCEPT !.pc = "dial",
                                     !.verdict = IF allowed THEN "allowed" ELSE "denied"]
    /\ UNCHANGED <<lockVars, remoteVars, copy>>

\* lines 35-38: no callback, or the callback's result allowed is false: the
\* channel-open is rejected as prohibited.
DirectAuthorize(allowed) ==
    /\ direct.pc = "authorize"
    /\ IF ~direct.callbackSet
       THEN direct' = [direct EXCEPT !.pc = "returned", !.rejected = "Prohibited",
                                     !.verdict = "no callback"]
       ELSE IF ~allowed
            THEN direct' = [direct EXCEPT !.pc = "returned", !.rejected = "Prohibited",
                                          !.verdict = "denied"]
            ELSE direct' = [direct EXCEPT !.pc = "dial", !.verdict = "allowed"]
    /\ UNCHANGED <<lockVars, remoteVars, copy>>

\* lines 40-47: the destination is dialed; a dial error (the context's end
\* among them) rejects the channel-open.
DirectDial(connects) ==
    /\ direct.pc = "dial"
    /\ LET dest == JoinHostPort(direct.d.DestAddr, Itoa(direct.d.DestPort))
       IN  IF connects
           THEN direct' = [direct EXCEPT !.pc = "accept", !.dialed = Append(@, dest),
                                         !.dconn = "open"]
           ELSE direct' = [direct EXCEPT !.pc = "returned", !.dialed = Append(@, dest),
                                         !.rejected = "ConnectionFailed"]
    /\ UNCHANGED <<lockVars, remoteVars, copy>>

\* An acceptance failure that leaves the dialed socket open.
AcceptFailureLeaks(accepts) ==
    /\ direct.pc = "accept"
    /\ IF accepts
       THEN /\ direct' = [direct EXCEPT !.pc = "relay", !.ch = "open"]
            /\ copy' = [d \in Directions |-> [NoCopy EXCEPT !.pc = "read"]]
       ELSE /\ direct' = [direct EXCEPT !.pc = "returned"]
            /\ UNCHANGED copy
    /\ UNCHANGED <<lockVars, remoteVars>>

\* lines 49-65: newChan.Accept; on an error the dialed socket is closed, else
\* the two copy goroutines are started and the handler returns.
DirectAccept(accepts) ==
    /\ direct.pc = "accept"
    /\ IF accepts
       THEN /\ direct' = [direct EXCEPT !.pc = "relay", !.ch = "open"]
            /\ copy' = [d \in Directions |-> [NoCopy EXCEPT !.pc = "read"]]
       ELSE /\ direct' = [direct EXCEPT !.pc = "returned", !.dconn = "closed"]
            /\ UNCHANGED copy
    /\ UNCHANGED <<lockVars, remoteVars>>

(***************************************************************************)
(* The relay, lines 56-65 (and 196-208): io.Copy(dst, src) reads a chunk   *)
(* of what the peer of src has written and writes it to dst, until a read  *)
(* or a write fails; then the deferred calls close both streams.           *)
(***************************************************************************)
Bytes == {"a", "b"}
MaxWritten == 3
BufSize == 2

StreamOpen(st) == IF st = "dconn" THEN direct.dconn = "open" ELSE direct.ch = "open"

\* The peer of the source stream writes a byte on it.
PeerWrites(d, b) ==
    /\ direct.pc = "relay"
    /\ StreamOpen(Source(d))
    /\ ~copy[d].eof
    /\ Len(copy[d].written) < MaxWritten
    /\ copy' = [copy EXCEPT ![d].written = Append(@, b), ![d].unread = Append(@, b)]
    /\ UNCHANGED <<lockVars, remoteVars, direct>>

\* The peer of the source stream closes its end: reads drain, then end.
PeerCloses(d) ==
    /\ direct.pc = "relay"
    /\ StreamOpen(Source(d))
    /\ ~copy[d].eof
    /\ copy' = [copy EXCEPT ![d].eof = TRUE]
    /\ UNCHANGED <<lockVars, remoteVars, direct>>

\* src.Read(buf): the next n unread bytes, in order.
ReadChunk(unread, n) == SubSeq(unread, 1, n)

\* io.Copy reads up to a buffer of the unread bytes.
CopyReads(d, n) ==
    /\ copy[d].pc = "read"
    /\ StreamOpen(Source(d))
    /\ n \in 1..BufSize /\ n <= Len(copy[d].unread)
    /\ copy' = [copy EXCEPT ![d].pc = "write",
                            ![d].buf = ReadChunk(copy[d].unread, n),
                            ![d].unread = SubSeq(@, n + 1, Len(@))]
    /\ UNCHANGED <<lockVars, remoteVars, direct>>

\* A write that sends the chunk's bytes last first.
WriteChunkReversed(delivered, chunk) ==
    delivered \o [i \in 1..Len(chunk) |-> chunk[Len(chunk) + 1 - i]]

\* dst.Write(chunk): what the sink's peer has received after the write.
WriteChunk(delivered, chunk) == delivered \o chunk

\* io.Copy writes the chunk it read to the open sink.
CopyWrites(d) ==
    /\ copy[d].pc = "write"
    /\ StreamOpen(Sink(d))
    /\ copy' = [copy EXCEPT ![d].pc = "read", ![d].buf = <<>>,
                            ![d].delivered = WriteChunk(@, copy[d].buf)]
    /\ UNCHANGED <<lockVars, remoteVars, direct>>

\* A write that fails part way: the sink took the first n bytes of the chunk,
\* io.Copy returns the error and the deferred calls close dconn and ch.
CopyWriteFails(d, n) ==
    /\ copy[d].pc = "write"
    /\ StreamOpen(Sink(d))
    /\ n < Len(copy[d].buf)
    /\ copy' = [copy EXCEPT ![d].pc = "done", ![d].buf = <<>>,
                            ![d].delivered = WriteChunk(@, ReadChunk(copy[d].buf, n))]
    /\ direct' = [direct EXCEPT !.dconn = "closed", !.ch = "closed"]
    /\ UNCHANGED <<lockVars, remoteVars>>

\* io.Copy returns: the read met the end of the source or a closed stream, or
\* the write met a closed sink; the deferred calls close dconn and ch.
CopyReturns(d) ==
    /\ \/ /\ copy[d].pc = "read"
          /\ \/ ~StreamOpen(Source(d))
             \/ copy[d].eof /\ copy[d].unread = <<>>
       \/ /\ copy[d].pc = "write"
          /\ ~StreamOpen(Sink(d))
    /\ copy' = [copy EXCEPT ![d].pc = "done", ![d].buf = <<>>]
    /\ direct' = [direct EXCEPT !.dconn = "closed", !.ch = "closed"]
    /\ UNCHANGED <<lockVars, remoteVars>>

LocalNext ==
    \/ DirectDecode
    \/ \E allowed \in BOOLEAN : DirectAuthorize(allowed)
    \/ \E connects \in BOOLEAN : DirectDial(connects)
    \/ \E accepts \in BOOLEAN : DirectAccept(accepts)
    \/ \E d \in Directions, b \in Bytes : PeerWrites(d, b)
    \/ \E d \in Directions : PeerCloses(d)
    \/ \E d \in Directions, n \in 1..BufSize : CopyReads(d, n)
    \/ \E d \in Directions : CopyWrites(d)
    \/ \E d \in Directions, n \in 0..(BufSize - 1) : CopyWriteFails(d, n)
    \/ \E d \in Directions : CopyReturns(d)

LocalSpec == LocalInit /\ [][LocalNext]_vars

(***************************************************************************)
(* The handler's mutex.  Each goroutine that HandleSSHRequest runs or      *)
(* starts is the sequence of its lock operations (h.Lock, h.Unlock), its   *)
(* accesses to the map h.forwards, and its blocking calls, in the order of *)
(* the source; an access to the map takes two steps, so that two accesses  *)
(* can overlap.                                                            *)
(***************************************************************************)
I(op, line) == [op |-> op, line |-> line]

\* tcpip-forward, on the way to a listener: lines 98-102, the query callback,
\* net.ListenTCP, the started callback, lines 135-137.
ForwardCode ==
    <<I("Lock", 98), I("Map", 99), I("Unlock", 102), I("Block", 121), I("Block", 125),
      I("Block", 132), I("Lock", 135), I("Map", 136), I("Unlock", 137)>>

\* cancel-tcpip-forward: lines 98-102, 236-238, the stopped callback, ln.Close.
CancelCode ==
    <<I("Lock", 98), I("Map", 99), I("Unlock", 102), I("Lock", 236), I("Map", 237),
      I("Unlock", 238), I("Block", 239), I("Block", 242)>>

\* The cancellation watcher: <-ctx.Done(), lines 140-142, ln.Close.
WatcherCode ==
    <<I("Block", 139), I("Lock", 140), I("Map", 141), I("Unlock", 142), I("Block", 144)>>

\* An accept loop that calls its stopped callback before it unlocks.
LoopCodeHoldsLock ==
    <<I("Block", 150), I("Block", 215), I("Lock", 216), I("Map", 217), I("Block", 219),
      I("Unlock", 218)>>

\* The accept loop: ln.Accept, lwg.Wait, lines 216-218, the stopped callback.
LoopCode ==
    <<I("Block", 150), I("Block", 215), I("Lock", 216), I("Map", 217), I("Unlock", 218),
      I("Block", 219)>>

\* A forwarding task: conn.OpenChannel, the channel-open callback, wg.Wait,
\* the channel-closed callback.
TaskCode == <<I("Block", 168), I("Block", 189), I("Block", 209), I("Block", 211)>>

Code(g) ==
    CASE g = "forward" -> ForwardCode
      [] g = "cancel" -> CancelCode
      [] g = "watcher" -> WatcherCode
      [] g = "loop" -> LoopCode
      [] g = "task" -> TaskCode

Ended(g) == at[g] > Len(Code(g))
Instr(g) == Code(g)[at[g]]
Step(g) == at' = [at EXCEPT ![g] = @ + 1]

LockInit ==
    /\ world = [conns |-> {"c1"}, slots |-> {}, cancels |-> 0]
    /\ callbackSet = FALSE
    /\ RemoteInit
    /\ direct = NoDirect
    /\ copy = [d \in Directions |-> NoCopy]
    /\ LockIdle

\* h.Lock(): returns once no goroutine holds the mutex.
Lock(g) ==
    /\ ~Ended(g) /\ Instr(g).op = "Lock"
    /\ mu = Unlocked
    /\ mu' = g
    /\ Step(g)
    /\ UNCHANGED <<remoteVars, localVars, inMap>>

\* h.Unlock()
Unlock(g) ==
    /\ ~Ended(g) /\ Instr(g).op = "Unlock"
    /\ mu' = Unlocked
    /\ Step(g)
    /\ UNCHANGED <<remoteVars, localVars, inMap>>

\* A read or write of h.forwards begins.
MapEnters(g) ==
    /\ ~Ended(g) /\ Instr(g).op = "Map"
    /\ g \notin inMap
    /\ inMap' = inMap \cup {g}
    /\ UNCHANGED <<remoteVars, localVars, mu, at>>

\* The read or write of h.forwards is done.
MapLeaves(g) ==
    /\ g \in inMap
    /\ inMap' = inMap \ {g}
    /\ Step(g)
    /\ UNCHANGED <<remoteVars, localVars, mu>>

\* A blocking call (callback, listen, accept, close, channel open, wait)
\* returns.
Unblocks(g) ==
    /\ ~Ended(g) /\ Instr(g).op = "Block"
    /\ Step(g)
    /\ UNCHANGED <<remoteVars, localVars, mu, inMap>>

LockNext ==
    \/ \E g \in Goroutines : Lock(g)
    \/ \E g \in Goroutines : Unlock(g)
    \/ \E g \in Goroutines : MapEnters(g)
    \/ \E g \in Goroutines : MapLeaves(g)
    \/ \E g \in Goroutines : Unblocks(g)

LockSpec == LockInit /\ [][LockNext]_vars


(***************************************************************************)
(* Properties of the forwarding handlers.                                  *)
(***************************************************************************)
ForwardType == "tcpip-forward"
CancelType == "cancel-tcpip-forward"

\* Key k has a listener, made by a tcpip-forward with that literal key, that
\* is open and whose loop is accepting.
Accepting(k) ==
    \E l \in Listeners : lns[l].addrstr = k /\ lns[l].open /\ lns[l].lpc = "accepting"

\* No invocation is in flight and no goroutine has a step left: every accept
\* loop blocks in Accept or has ended, every watcher waits or has ended.
AtRest ==
    /\ \A h \in Handlers : handlers[h].pc = "idle"
    /\ \A l \in Listeners :
          /\ lns[l].lpc = "done" \/ (lns[l].lpc = "accepting" /\ lns[l].open)
          /\ lns[l].wpc = "done" \/ (lns[l].wpc = "wait" /\ ~ctxDone[lns[l].conn])

\* C1: the registry holds an entry for a key iff a listener made for that
\* literal key is open and accepting. Stated where the claim is weakest, with
\* every goroutine at rest, so that no state between two steps of one
\* operation counts against it.
C1_RegistryIffAccepting ==
    AtRest => \A k \in (DOMAIN forwards) \cup {lns[l].addrstr : l \in Listeners} :
                  (k \in DOMAIN forwards) <=> Accepting(k)

\* A cancel-tcpip-forward that found a listener under its key has returned
\* its handled reply.
CancelReturned(h) ==
    /\ handlers[h].pc = "returned"
    /\ handlers[h].type = CancelType
    /\ handlers[h].reply.ok
    /\ handlers[h].ok

\* C2: once the cancel has returned handled, its listener is closed and the
\* registry holds no entry for the key.
C2_CancelRemovesEntry ==
    \A h \in Handlers : CancelReturned(h) =>
        /\ ~lns[handlers[h].ln].open
        /\ handlers[h].addrstr \notin DOMAIN forwards

\* The part of C2 the code keeps: once the cancel has returned handled, its
\* listener is closed, and a closed listener stays closed; the registry entry
\* is removed only by the listener's accept loop when it has drained, after
\* which the registry does not map the key to that listener.
C2_CancelClosesListener ==
    /\ [](\A h \in Handlers : CancelReturned(h) => ~lns[handlers[h].ln].open)
    /\ [][\A l \in Listeners : ~lns[l].open => ~lns'[l].open]_vars
    /\ [](\A l \in Listeners : lns[l].lpc \in {"stopcb", "done"} =>
              ~(lns[l].addrstr \in DOMAIN forwards /\ forwards[lns[l].addrstr] = l))

\* The case where C2 fails: the cancel has returned while a task accepted on its listener is
\* still relaying and the entry is still in the registry.
C2_Witness ==
    \E h \in Handlers : /\ CancelReturned(h)
                        /\ handlers[h].addrstr \in DOMAIN forwards
                        /\ \E t \in Tasks : /\ tasks[t].ln = handlers[h].ln
                                            /\ tasks[t].pc = "relay"

\* Task t calls the callback in channel-open mode (signal 2) in this step.
CallsChannelOpen(t) == tasks[t].pc = "cbopen" /\ tasks'[t].pc = "relay"

\* C3: no channel-open callback for a listener after any stopped
\* callback for its bind address, from the drain or from a cancel handler.
C3_NoOpenAfterAnyStopped ==
    [][\A t \in Tasks : CallsChannelOpen(t) => lns[tasks[t].ln].stoppedBy = {}]_vars

\* The part of C3 the code keeps: no channel-open callback for a listener
\* after the stopped callback of its accept loop's drain.
C3_NoOpenAfterDrainStopped ==
    [][\A t \in Tasks : CallsChannelOpen(t) => "drain" \notin lns[tasks[t].ln].stoppedBy]_vars

\* Its case: the drain's stopped callback came after a channel-open callback
\* of a task of the same listener.
C3_Witness ==
    \E t \in Tasks : tasks[t].opened /\ "drain" \in lns[tasks[t].ln].stoppedBy

\* C4: after a connection's context has ended and the watchers of its
\* listeners have run, with no request of the connection in flight, each of
\* its listeners is closed.
C4_ClosedAfterContextEnd ==
    \A c \in Conns :
        (/\ ctxDone[c]
         /\ \A h \in Handlers : handlers[h].pc # "idle" => handlers[h].conn # c
         /\ \A l \in Listeners : lns[l].conn = c => lns[l].wpc = "done")
        => \A l \in Listeners : lns[l].conn = c => ~lns[l].open

\* C5: a decoded direct-tcpip channel-open without a callback, or denied by
\* it, is rejected as prohibited, nothing is dialed and the channel is not
\* accepted.
C5_DeniedIsRejected ==
    (direct.decodes /\ direct.verdict \in {"no callback", "denied"}) =>
        /\ direct.pc = "returned"
        /\ direct.rejected = "Prohibited"
        /\ direct.dialed = <<>>
        /\ direct.dconn = "none"
        /\ direct.ch = "none"

C5_Witness == direct.decodes /\ direct.callbackSet /\ direct.verdict = "denied"

\* The keys whose goroutines or invocations take this step.
ActingKeys ==
    {handlers[h].addrstr : h \in {g \in Handlers : handlers'[g] # handlers[g]}}
    \cup {handlers'[h].addrstr : h \in {g \in Handlers : handlers'[g] # handlers[g]}}
    \cup {lns[l].addrstr : l \in {m \in Listeners : lns'[m].lpc # lns[m].lpc
                                                      \/ lns'[m].wpc # lns[m].wpc}}

\* The registry's entry for key k differs after this step.
EntryChanges(k) ==
    \/ (k \in DOMAIN forwards) # (k \in DOMAIN forwards')
    \/ k \in DOMAIN forwards /\ k \in DOMAIN forwards' /\ forwards'[k] # forwards[k]

\* C6: a successful tcpip-forward returns with the registry mapping its key to
\* its own listener, every entry maps a key to a listener made for that key,
\* and a step taken for one key (a cancel, a drain, a registration) neither
\* changes the entry of another key nor closes a listener of another key.
C6_KeysIsolated ==
    /\ [](\A h \in Handlers :
              (handlers[h].pc = "returned" /\ handlers[h].type = ForwardType
               /\ handlers[h].reply.ok)
              => /\ handlers[h].addrstr \in DOMAIN forwards
                 /\ forwards[handlers[h].addrstr] = handlers[h].ln
                 /\ lns[handlers[h].ln].addrstr = handlers[h].addrstr
                 /\ lns[handlers[h].ln].open)
    /\ [](\A k \in DOMAIN forwards : forwards[k] \in Listeners /\ lns[forwards[k]].addrstr = k)
    /\ [][\A l \in Listeners :
              (EntryChanges(lns[l].addrstr) \/ lns'[l].open # lns[l].open)
              => lns[l].addrstr \in ActingKeys]_vars

\* C6's case: two listeners of one connection with distinct keys; one has
\* drained, the other is open, accepting and registered.
C6_Witness ==
    \E l1, l2 \in Listeners :
        /\ lns[l1].addrstr # lns[l2].addrstr
        /\ lns[l1].conn = lns[l2].conn
        /\ lns[l1].lpc = "done"
        /\ lns[l2].open /\ lns[l2].lpc = "accepting"
        /\ lns[l2].addrstr \in DOMAIN forwards /\ forwards[lns[l2].addrstr] = l2

\* C7: no request under any configuration ends in a panic.
C7_NoPanic == \A h \in Handlers : handlers[h].pc # "panic"

\* C8: the channel-open of an accepted connection carries the bind host of the
\* listener's request, the bound port of that request's reply (the listener's
\* actual port) and the peer's address.
C8_ChannelData ==
    \A t \in Tasks :
        LET l == tasks[t].ln
        IN  /\ tasks[t].payload.DestAddr = SplitHostPort(lns[l].addrstr).host
            /\ tasks[t].payload.DestPort = lns[l].replyPort
            /\ tasks[t].payload.DestPort = lns[l].laddr.Port
            /\ tasks[t].payload.OriginAddr = tasks[t].peer.IP
            /\ tasks[t].payload.OriginPort = tasks[t].peer.Port

\* C8's case: the channel of a connection accepted on a listener requested
\* with port 0 has been opened.
C8_Witness ==
    \E t \in Tasks : /\ lns[tasks[t].ln].addr.Port = 0
                     /\ tasks[t].ch = "open"

\* C9: a cancel-tcpip-forward that decoded and resolved calls the stopped
\* callback once before it closes anything, closes only a listener found
\* under its literal key, and returns handled with no payload.
C9_CancelCallsStoppedOnce ==
    \A h \in Handlers :
        (handlers[h].type = CancelType /\ handlers[h].pc \notin {"idle", "lookup", "stopcb"}
         /\ handlers[h].addr # NoAddr)
        => /\ handlers[h].stopCalls = 1
           /\ handlers[h].closes <= 1
           /\ handlers[h].closes = 1 => handlers[h].ok
           /\ handlers[h].pc = "returned" =>
                 handlers[h].reply = [ok |-> TRUE, payload |-> NilPayload]

IsPrefix(s, t) == Len(s) <= Len(t) /\ SubSeq(t, 1, Len(s)) = s

\* C10: in each direction, what has been delivered is a prefix of what was
\* written on the other stream.
C10_DeliveredIsPrefix ==
    \A d \in Directions : IsPrefix(copy[d].delivered, copy[d].written)

\* C10's case: both directions have delivered bytes, one of them two
\* different bytes in the order they were written.
C10_Witness ==
    /\ \A d \in Directions : copy[d].delivered # <<>>
    /\ \E d \in Directions : /\ Len(copy[d].delivered) >= 2
                             /\ copy[d].delivered[1] # copy[d].delivered[2]

\* The forwarding tasks of the connections accepted on listener l.
TasksOf(l) == {t \in Tasks : tasks[t].ln = l}

\* C11: the drain of a listener's accept loop (registry deletion, then the
\* stopped callback) comes only after every forwarding task of the listener
\* has finished: a task whose channel opened has relayed both ways and has
\* returned from its channel-closed callback.
C11_DrainAfterTasks ==
    \A l \in Listeners : lns[l].lpc \in {"stopcb", "done"} =>
        \A t \in TasksOf(l) : /\ tasks[t].pc = "done"
                              /\ tasks[t].opened => /\ tasks[t].copies = CopyDirections
                                                    /\ tasks[t].closed

\* C11's case: a loop has drained and called its stopped callback after a
\* task of its listener relayed and closed its channel.
C11_Witness ==
    \E l \in Listeners : /\ lns[l].lpc = "done"
                         /\ "drain" \in lns[l].stoppedBy
                         /\ \E t \in TasksOf(l) : tasks[t].closed

\* Invocation h of tcpip-forward takes a step that does not lead to a
\* listener: it goes on to listen, or it returns not handled.
ForwardNotHandledStep(h) ==
    /\ handlers'[h] # handlers[h]
    /\ handlers'[h].type = ForwardType
    /\ \/ handlers'[h].pc = "listen"
       \/ handlers'[h].pc = "returned" /\ ~handlers'[h].reply.ok

\* C12: a tcpip-forward answered not handled has changed neither the
\* registry nor the listeners, has started no accept loop and no watcher and
\* has called no started callback; a listener is made only by an invocation
\* whose query callback returned true, and its goroutines are started only by
\* the invocation that then registers it and answers handled.
C12_NotHandledLeavesNothing ==
    /\ [][\A h \in Handlers : ForwardNotHandledStep(h) =>
              forwards' = forwards /\ lns' = lns]_vars
    /\ [](\A h \in Handlers :
              (handlers[h].type = ForwardType /\ handlers[h].pc = "returned"
               /\ ~handlers[h].reply.ok)
              => handlers[h].ln = NoLn /\ handlers[h].startCalls = 0)
    /\ [][Len(lns') > Len(lns) =>
              \E h \in Handlers : /\ handlers[h].pc = "listen"
                                  /\ handlers[h].query = "allowed"
                                  /\ handlers'[h].ln = Len(lns')]_vars
    /\ [][\A l \in Listeners :
              (lns[l].lpc = "none" /\ (lns'[l].lpc # "none" \/ lns'[l].wpc # "none"))
              => \E h \in Handlers : /\ handlers[h].pc = "register"
                                     /\ handlers[h].ln = l
                                     /\ handlers'[h].reply.ok]_vars

\* C12's case: a tcpip-forward allowed by the query callback is answered
\* not handled because the listen failed, while another listener is open.
C12_Witness ==
    \E h \in Handlers : /\ handlers[h].type = ForwardType
                        /\ handlers[h].pc = "returned"
                        /\ ~handlers[h].reply.ok
                        /\ handlers[h].query = "allowed"
                        /\ \E l \in Listeners : lns[l].open

\* C13: a finished forwarding task has closed its accepted socket and, if
\* its channel was opened, the channel; a failed channel-open closes the
\* socket and starts no relay; the first relay direction to end closes both.
C13_TaskClosesBoth ==
    \A t \in Tasks :
        /\ tasks[t].pc = "done" => /\ tasks[t].c = "closed"
                                   /\ tasks[t].ch \in {"none", "closed"}
        /\ (tasks[t].pc = "done" /\ tasks[t].ch = "none") => tasks[t].copies = {}
        /\ tasks[t].copies # {} => tasks[t].c = "closed" /\ tasks[t].ch = "closed"

\* C13's case: a task has finished after its channel opened and both relay
\* directions ended.
C13_Witness ==
    \E t \in Tasks : /\ tasks[t].pc = "done"
                     /\ tasks[t].opened
                     /\ tasks[t].copies = CopyDirections

\* A direct-tcpip channel-open whose payload did not decode has had no
\* effect but its rejection: no callback, no dial, no socket, no channel.
DecodeFailureOnlyRejects ==
    ~direct.decodes =>
        /\ direct.pc \in {"decode", "returned"}
        /\ direct.verdict = "none"
        /\ direct.dialed = <<>>
        /\ direct.dconn = "none"
        /\ direct.ch = "none"
        /\ \A d \in Directions : copy[d] = NoCopy

\* C14: a decode failure is rejected with a code for protocol errors, a code
\* other than those of a failed dial and of a denial, and has no side effects.
C14_DecodeFailureProtocolError ==
    /\ DecodeFailureOnlyRejects
    /\ (~direct.decodes /\ direct.pc = "returned") =>
           direct.rejected \notin {"none", "ConnectionFailed", "Prohibited"}

\* C14, amended: a decode failure is rejected with the connection-failed
\* code, the code of a failed dial, and has no side effects.
C14_DecodeFailureConnectionFailed ==
    /\ DecodeFailureOnlyRejects
    /\ (~direct.decodes /\ direct.pc = "returned") => direct.rejected = "ConnectionFailed"

\* C14's case: the handler has returned from a payload that did not decode.
C14_Witness == ~direct.decodes /\ direct.pc = "returned" /\ direct.rejected # "none"

\* C15: an invocation that has returned without accepting the channel has
\* left no dialed socket open; a dialed socket is open only between the dial
\* and the acceptance, or while both copies of an accepted channel's relay
\* are still running.
C15_NoSocketWithoutRelay ==
    /\ direct.pc = "returned" => direct.ch = "none" /\ direct.dconn \in {"none", "closed"}
    /\ direct.dconn = "open" =>
           \/ direct.pc = "accept"
           \/ /\ direct.pc = "relay"
              /\ direct.ch = "open"
              /\ \A d \in Directions : copy[d].pc \in {"read", "write"}

\* C15's case: the destination was dialed and the channel's acceptance
\* failed.
C15_Witness ==
    direct.pc = "returned" /\ direct.dialed # <<>> /\ direct.dconn = "closed"

\* C16: a goroutine in the middle of a map access holds the mutex, so no two
\* are in the map at once; the holder of the mutex is never at a blocking
\* call, at a second Lock or at its end, so its next steps lead to Unlock and
\* no goroutine waits for the mutex forever.
C16_MapUnderMutex ==
    /\ \A g \in inMap : mu = g
    /\ Cardinality(inMap) <= 1
    /\ \A g \in Goroutines : (~Ended(g) /\ Instr(g).op = "Map") => mu = g
    /\ \A g \in Goroutines : mu = g => ~Ended(g) /\ Instr(g).op \in {"Map", "Unlock"}

\* C16's case: one goroutine is in the map while two others wait in Lock
\* and a fourth is in a blocking call.
C16_Witness ==
    \E g \in inMap : \E j, k \in Goroutines \ {g} :
        /\ j # k
        /\ ~Ended(j) /\ Instr(j).op = "Lock"
        /\ ~Ended(k) /\ Instr(k).op = "Lock"
        /\ \E b \in Goroutines : ~Ended(b) /\ Instr(b).op = "Block"

C18_WatcherClosesOwnConnection ==
    \A l \in Listeners :
        (lns[l].wpc = "done" /\ lns[l].wln # NoLn) => lns[lns[l].wln].conn = lns[l].conn

\* The accept loop of listener l deletes its key from the registry in this
\* step.
Drains(l) == lns[l].lpc = "draining" /\ lns'[l].lpc = "stopcb"

\* C19: when a loop drains while the registry maps its key to another
\* listener that is still open, the entry is still there after the drain.
C19_DrainKeepsNewerEntry ==
    [][\A l \in Listeners :
          LET k == lns[l].addrstr
          IN  (/\ Drains(l)
               /\ k \in DOMAIN forwards
               /\ forwards[k] # l
               /\ lns[forwards[k]].open)
              => k \in DOMAIN forwards' /\ forwards'[k] = forwards[k]]_vars

\* C20: for each accepted connection the channel-closed callback is called
\* at most once, after the channel-open callback of the same connection and
\* after both relay directions ended; neither is called when the channel
\* did not open; both come after the listener's accept loop started, which
\* is after its started callback, itself called only after the query
\* callback returned true.
C20_CallbacksPaired ==
    /\ [](\A t \in Tasks :
              /\ tasks[t].closed => /\ tasks[t].opened
                                    /\ tasks[t].copies = {"c->ch", "ch->c"}
                                    /\ tasks[t].pc = "done"
              /\ tasks[t].opened => tasks[t].ch # "none"
              /\ (tasks[t].pc = "done" /\ tasks[t].ch = "none") =>
                     ~tasks[t].opened /\ ~tasks[t].closed
              /\ lns[tasks[t].ln].lpc # "none")
    /\ [](\A h \in Handlers : handlers[h].startCalls > 0 =>
              /\ handlers[h].startCalls = 1
              /\ handlers[h].query = "allowed"
              /\ handlers[h].ln # NoLn)
    /\ [](\A l \in Listeners : lns[l].lpc = "none" =>
              \E h \in Handlers : handlers[h].ln = l /\ handlers[h].startCalls = 1)
    /\ [][\A t \in Tasks : tasks[t].closed => tasks'[t] = tasks[t]]_vars
    /\ [][\A t \in Tasks : tasks[t].opened => tasks'[t].opened]_vars

\* C20's case: a connection's channel-closed callback has been called while
\* its listener is still open.
C20_Witness ==
    \E t \in Tasks : /\ tasks[t].closed
                     /\ tasks[t].opened
                     /\ lns[tasks[t].ln].open

====
